---- MODULE Spec2Model ----
(***************************************************************************)
(* Secure file transfer (src/app.py, src/database.py, src/crypto_utils.py) *)
(*                                                                         *)
(* The Flask handlers upload_file, decrypt_file, download_file and         *)
(* check_status run on concurrent request threads.  Every method of        *)
(* DatabaseManager takes self.lock for its whole body, so one database     *)
(* call is one atomic step; a handler is a sequence of such steps and      *)
(* other threads may run between any two of them.  A handler's local       *)
(* variables (the row it read, the bytes it fetched) live in the worker    *)
(* that runs it.                                                           *)
(***************************************************************************)
EXTENDS Integers, Sequences, FiniteSets, TLC

\* ---------------------------------------------------------------- bounds
NumWorkers  == 4     \* request threads; a burst uses all of them
MaxInFlight == 2     \* requests in flight together outside a burst
MaxCalls    == 4     \* requests started in one behaviour outside a burst
MaxTime     == 2     \* clock values 0..MaxTime (minutes)
AesKeySize  == 3     \* bytes of an AES key (32 in AESCrypto), scaled down
                     \*   with the modulus so that a key still spans blocks
MaxLen      == 5     \* longest byte string given to Huffman on its own
MaxRun      == 16    \* longest run of one byte value given to Huffman
MaxPrime    == 250   \* largest small prime given to _find_generator
MaxDraw     == 40    \* largest value random.randrange draws in _find_generator
MaxN        == 60    \* largest number given to _is_prime

\* ------------------------------------------------------ program constants
MAX_ATTEMPTS == 3    \* app.py: attempt_count >= 3, "(n/3)", 3 - new_count

\* ----------------------------------------------------------- input sets
Workers   == 1..NumWorkers
TxIds     == {"t1"}                 \* uuid4 values; one is enough, every
                                    \* statement is WHERE transaction_id = ?
GenPins   == {"PIN_A"}              \* what generate_pin() may return
Pins      == {"PIN_A", "PIN_B"}     \* what a receiver may type
Intended  == {"", "alice"}          \* intended_receiver_name form field
Names     == {"alice", "bob"}       \* receiver_name of a decrypt request
\* A filename is what os.path.splitext makes of it: <<root, ext>>.
NoName    == <<"", "">>
FileNames == {<<"doc", ".pdf">>}
OtherNames == {<<"scan", ".PNG">>, <<"notes", ".txt">>, NoName}
\* File contents: the second one encodes to a whole number of bytes.
FileBytes == {<<1, 2, 2>>, <<1, 1, 2, 2, 3>>}
EmptyFile == <<>>
ExpiryMinutes == {1}
\* get_random_bytes(key_size): one key with and one without a leading 0
AesKeys   == {[i \in 1..AesKeySize |-> i], [i \in 1..AesKeySize |-> i - 1]}
\* _generate_prime(bits): primes of 17 bits (256 in generate_keypair), the
\* least width whose block capacity (bit_length - 1) // 8 exceeds one byte
Primes    == {65537}
\* random.randrange(1, p - 1): the private exponent x, the nonce k
Exponents == {12345}
Nonces    == {77}

VARIABLES
    transactions,   \* table transactions: transaction_id -> row
    temp_files,     \* table temp_files:   transaction_id -> row
    now,            \* datetime.now()
    pc,             \* per worker: where its handler stands
    req,            \* per worker: the request it serves
    transaction,    \* per worker: decrypt_file's local `transaction`
    file_data,      \* per worker: download_file's local `file_data`
    \* What the clients have seen (history, read by the properties only):
    issued,         \* ids handed out by upload_file, with what was sealed
    response,       \* the response the step just taken sent, with the
                    \*   request it answers; NoResponse if it sent none
    count,          \* per id: responses sent so far, by the kinds counted
    streak,         \* per id: how many of the last responses in a row
                    \*   reported a failed attempt, how many of those
                    \*   answered a request with a wrong PIN, and how many
                    \*   reported a name mismatch
    calls,          \* requests started so far
    \* crypto_utils called on its own, outside any handler:
    lib             \* the call, its arguments and what it has returned

store   == <<transactions, temp_files>>
locals  == <<pc, req, transaction, file_data>>
history == <<issued, count, streak, calls>>
vars    == <<transactions, temp_files, now, pc, req, transaction, file_data,
             issued, response, count, streak, calls, lib>>

\* ------------------------------------------------- the crypto pipeline
\* hashlib.sha256 and AES-CBC (pycryptodome) are library code: a tagged
\* term wraps the input, and decryption succeeds only on a ciphertext made
\* with the very key it is given (a key of another length makes AES.new
\* raise, another key of the right length makes unpad raise).
Sha256(x) == <<"sha256", x>>
AesEncrypt(c, k) == <<"aes", k, c>>
Flipped(ct) == <<"flipped", ct>>

AesDecryptOk(ct, k) == ct[1] = "aes" /\ ct[2] = k
AesDecrypt(ct, k) == ct[3]

\* ------------------------------------- crypto_utils.HuffmanCompression
\* Bytes are integers 0..255, byte strings and bit strings are sequences.
\* A tree node is <<"leaf", char, freq>> or <<"node", freq, left, right>>;
\* NoTree is self.tree = None.
NoTree == <<"none">>
HuffmanNode(char, freq) == <<"leaf", char, freq>>
Merged(left, right) == <<"node", left[IF left[1] = "leaf" THEN 3 ELSE 2]
                                 + right[IF right[1] = "leaf" THEN 3 ELSE 2],
                         left, right>>
IsLeaf(node) == node[1] = "leaf"
Freq(node) == IF IsLeaf(node) THEN node[3] ELSE node[2]
\* HuffmanNode.__lt__
NodeLt(a, b) == Freq(a) < Freq(b)

\* _build_frequency_table: a dict keeps its keys in insertion order, so the
\* table is the sequence of <<byte, count>> in order of first appearance.
RECURSIVE FreqInsert(_, _)
FreqInsert(table, byte) ==
    IF table = <<>> THEN << <<byte, 1>> >>
    ELSE IF Head(table)[1] = byte
         THEN << <<byte, Head(table)[2] + 1>> >> \o Tail(table)
         ELSE <<Head(table)>> \o FreqInsert(Tail(table), byte)

RECURSIVE build_frequency_table(_)
build_frequency_table(data) ==
    IF data = <<>> THEN <<>>
    ELSE FreqInsert(build_frequency_table(SubSeq(data, 1, Len(data) - 1)),
                    data[Len(data)])

\* heapq._siftdown(heap, startpos, pos), positions counted from 0
RECURSIVE SiftDown(_, _, _, _)
SiftDown(heap, startpos, pos, newitem) ==
    IF pos > startpos /\ NodeLt(newitem, heap[((pos - 1) \div 2) + 1])
    THEN SiftDown([heap EXCEPT ![pos + 1] = heap[((pos - 1) \div 2) + 1]],
                  startpos, (pos - 1) \div 2, newitem)
    ELSE [heap EXCEPT ![pos + 1] = newitem]

\* heapq._siftup(heap, pos): the smaller child moves up until a leaf is hit
RECURSIVE SiftUp(_, _, _, _)
SiftUp(heap, startpos, pos, newitem) ==
    LET endpos == Len(heap)
        childpos == 2 * pos + 1
        rightpos == childpos + 1
        pick == IF rightpos < endpos
                   /\ ~NodeLt(heap[childpos + 1], heap[rightpos + 1])
                THEN rightpos ELSE childpos
    IN IF childpos < endpos
       THEN SiftUp([heap EXCEPT ![pos + 1] = heap[pick + 1]],
                   startpos, pick, newitem)
       ELSE SiftDown([heap EXCEPT ![pos + 1] = newitem], startpos, pos, newitem)

heappush(heap, item) == SiftDown(Append(heap, item), 0, Len(heap), item)

\* heapq.heappop: <<item returned, heap left>>
heappop(heap) ==
    LET lastelt == heap[Len(heap)]
        rest == SubSeq(heap, 1, Len(heap) - 1)
    IN IF rest = <<>> THEN <<lastelt, rest>>
       ELSE <<rest[1], SiftUp([rest EXCEPT ![1] = lastelt], 0, 0, lastelt)>>

RECURSIVE PushAll(_, _)
PushAll(heap, table) ==
    IF table = <<>> THEN heap
    ELSE PushAll(heappush(heap, HuffmanNode(Head(table)[1], Head(table)[2])),
                 Tail(table))

RECURSIVE MergeAll(_)
MergeAll(heap) ==
    IF Len(heap) <= 1 THEN heap[1]
    ELSE LET a == heappop(heap)
             b == heappop(a[2])
         IN MergeAll(heappush(b[2], Merged(a[1], b[1])))

\* _build_huffman_tree
build_huffman_tree(freq_table) ==
    IF Len(freq_table) <= 1
    THEN IF freq_table = <<>> THEN HuffmanNode(0, 0)
         ELSE HuffmanNode(freq_table[1][1], freq_table[1][2])
    ELSE MergeAll(PushAll(<<>>, freq_table))

\* _generate_codes: the set of <<byte, code>>
RECURSIVE generate_codes(_, _)
generate_codes(root, code) ==
    IF IsLeaf(root) THEN {<<root[2], IF code = <<>> THEN <<0>> ELSE code>>}
    ELSE generate_codes(root[3], Append(code, 0))
         \cup generate_codes(root[4], Append(code, 1))

CodeOf(codes, byte) == (CHOOSE c \in codes : c[1] = byte)[2]

RECURSIVE Encode(_, _)
Encode(codes, data) ==
    IF data = <<>> THEN <<>>
    ELSE CodeOf(codes, Head(data)) \o Encode(codes, Tail(data))

\* int(byte_str, 2) of up to 8 bits, and format(byte, '08b')
RECURSIVE IntOfBits(_)
IntOfBits(bits) ==
    IF bits = <<>> THEN 0
    ELSE 2 * IntOfBits(SubSeq(bits, 1, Len(bits) - 1)) + bits[Len(bits)]

BitsOfByte(byte) == [i \in 1..8 |-> (byte \div (2 ^ (8 - i))) % 2]

RECURSIVE Pack(_)
Pack(bits) ==
    IF bits = <<>> THEN <<>>
    ELSE IF Len(bits) <= 8 THEN <<IntOfBits(bits)>>
    ELSE <<IntOfBits(SubSeq(bits, 1, 8))>> \o Pack(SubSeq(bits, 9, Len(bits)))

RECURSIVE Unpack(_)
Unpack(bytes) ==
    IF bytes = <<>> THEN <<>>
    ELSE BitsOfByte(Head(bytes)) \o Unpack(Tail(bytes))

\* The tree compress() leaves in self.tree
HuffmanTree(data) ==
    IF data = <<>> THEN NoTree
    ELSE build_huffman_tree(build_frequency_table(data))

\* HuffmanCompression.compress
HuffmanCompress(data) ==
    IF data = <<>> THEN <<>>
    ELSE LET encoded_bits == Encode(generate_codes(HuffmanTree(data), <<>>), data)
             padding == 8 - (Len(encoded_bits) % 8)
             padded == IF padding # 8
                       THEN encoded_bits \o [i \in 1..padding |-> 0]
                       ELSE encoded_bits
         IN <<padding>> \o Pack(padded)

\* The decoding loop of decompress
RECURSIVE Decode(_, _, _)
Decode(tree, current, bits) ==
    IF bits = <<>> THEN <<>>
    ELSE LET child == IF Head(bits) = 0 THEN current[3] ELSE current[4]
         IN IF IsLeaf(child)
            THEN <<child[2]>> \o Decode(tree, tree, Tail(bits))
            ELSE Decode(tree, child, Tail(bits))

\* HuffmanCompression.decompress, with the tree set_tree() installed
HuffmanDecompress(compressed_data, tree) ==
    IF compressed_data = <<>> \/ tree = NoTree THEN <<>>
    ELSE LET padding == compressed_data[1]
         IN IF IsLeaf(tree)
            THEN LET bit_count == (Len(compressed_data) - 1) * 8 - padding
                 IN [i \in 1..(IF bit_count > 0 THEN bit_count ELSE tree[3])
                        |-> tree[2]]
            ELSE LET encoded_bits == Unpack(Tail(compressed_data))
                     kept == IF padding > 0
                             THEN SubSeq(encoded_bits, 1, Len(encoded_bits) - padding)
                             ELSE encoded_bits
                 IN Decode(tree, tree, kept)

\* ----------------------------------------------- crypto_utils.ElGamalCrypto
\* (a * b) % p for p below 2^17, computed without leaving 32 bits
MulMod(a, b, p) ==
    ((((a * (b \div 256)) % p) * 256) + a * (b % 256)) % p

\* pow(a, b, p) by squaring: h is pow(a, b // 2, p)
PowStep(h, a, b, p) ==
    IF h = 0 THEN 0
    ELSE IF b % 2 = 0 THEN MulMod(h, h, p)
    ELSE MulMod(a, MulMod(h, h, p), p)

RECURSIVE PowLoop(_, _, _)
PowLoop(a, b, p) ==
    IF b = 0 THEN 1 % p ELSE PowStep(PowLoop(a, b \div 2, p), a, b, p)

PowMod(a, b, p) == IF a % p = 0 /\ b > 0 THEN 0 ELSE PowLoop(a, b, p)

\* int.bit_length()
RECURSIVE bit_length(_)
bit_length(n) == IF n = 0 THEN 0 ELSE 1 + bit_length(n \div 2)

\* int.from_bytes(data, byteorder='big')
RECURSIVE from_bytes(_)
from_bytes(data) ==
    IF data = <<>> THEN 0
    ELSE 256 * from_bytes(SubSeq(data, 1, Len(data) - 1)) + data[Len(data)]

\* int.to_bytes(length, byteorder='big')
to_bytes(n, length) == [i \in 1..length |-> (n \div (256 ^ (length - i))) % 256]

\* _find_generator: the first of the listed small numbers that is not a
\* quadratic residue.  (The random search that follows the list is not
\* reached for the moduli of Primes.)
SmallGenerators == <<2, 3, 5, 7, 11, 13, 17, 19, 23>>
RECURSIVE FirstGenerator(_, _)
FirstGenerator(p, i) ==
    IF i > Len(SmallGenerators) THEN 2
    ELSE IF PowMod(SmallGenerators[i], (p - 1) \div 2, p) # 1
         THEN SmallGenerators[i]
         ELSE FirstGenerator(p, i + 1)
find_generator(p) == FirstGenerator(p, 1)

\* generate_keypair, for the prime p and the private exponent x it drew:
\* <<public_key, private_key>>
generate_keypair(p, x) ==
    LET g == find_generator(p)
    IN << <<p, g, PowMod(g, x, p)>>, <<p, g, x>> >>

\* encrypt: max_block_size = (p.bit_length() - 1) // 8
max_block_size(p) == (bit_length(p) - 1) \div 8

\* _encrypt_block with the random k it drew; "raise" is ValueError
encrypt_block(data, public_key, k) ==
    LET p == public_key[1]
        g == public_key[2]
        y == public_key[3]
        data_int == from_bytes(data)
    IN IF data_int >= p THEN <<"raise">>
       ELSE <<"block", PowMod(g, k, p), MulMod(data_int, PowMod(y, k, p), p)>>

RECURSIVE EncryptBlocks(_, _, _, _)
EncryptBlocks(data, public_key, k, size) ==
    IF data = <<>> THEN <<>>
    ELSE IF Len(data) <= size THEN <<encrypt_block(data, public_key, k)>>
    ELSE <<encrypt_block(SubSeq(data, 1, size), public_key, k)>>
         \o EncryptBlocks(SubSeq(data, size + 1, Len(data)), public_key, k, size)

\* ElGamalCrypto.encrypt: one block, or the pickled list of blocks
ElGamalEncrypt(data, public_key, k) ==
    IF Len(data) > max_block_size(public_key[1])
    THEN <<"blocks", EncryptBlocks(data, public_key, k,
                                   max_block_size(public_key[1]))>>
    ELSE encrypt_block(data, public_key, k)

\* _decrypt_block: the minimal big-endian bytes of the recovered integer
decrypt_block(encrypted_block, private_key) ==
    LET p == private_key[1]
        x == private_key[3]
        s == PowMod(encrypted_block[2], x, p)
        s_inv == PowMod(s, p - 2, p)
        plaintext_int == MulMod(encrypted_block[3], s_inv, p)
        byte_length == (bit_length(plaintext_int) + 7) \div 8
    IN IF byte_length = 0 THEN <<0>>
       ELSE to_bytes(plaintext_int, byte_length)

RECURSIVE DecryptBlocks(_, _)
DecryptBlocks(blocks, private_key) ==
    IF blocks = <<>> THEN <<>>
    ELSE decrypt_block(Head(blocks), private_key)
         \o DecryptBlocks(Tail(blocks), private_key)

\* ElGamalCrypto.decrypt
ElGamalDecrypt(encrypted_data, private_key) ==
    IF encrypted_data[1] = "blocks"
    THEN DecryptBlocks(encrypted_data[2], private_key)
    ELSE decrypt_block(encrypted_data, private_key)

\* ------------------------------------------------------------ the store
None == <<>>
Some(x) == <<x>>
EmptyTable == [x \in {} |-> x]
RemoveKey(f, k) == [x \in DOMAIN f \ {k} |-> f[x]]
PutKey(f, k, v) == [x \in DOMAIN f \cup {k} |-> IF x = k THEN v ELSE f[x]]

\* DatabaseManager.get_transaction: dict(result) if result else None
get_transaction(tid) ==
    IF tid \in DOMAIN transactions THEN Some(transactions[tid]) ELSE None

\* DatabaseManager.get_temp_file
get_temp_file(tid) ==
    IF tid \in DOMAIN temp_files THEN Some(temp_files[tid]) ELSE None

\* DELETE FROM transactions WHERE transaction_id = ?
delete_transaction(tid) == RemoveKey(transactions, tid)

\* UPDATE transactions SET attempt_count = attempt_count + 1 WHERE ...
\* Mutant: the failed attempt also puts the status back to ACTIVE.
increment_attempts_Reactivating(tid) ==
    IF tid \in DOMAIN transactions
    THEN [transactions EXCEPT ![tid].attempt_count = @ + 1,
                              ![tid].status = "ACTIVE"]
    ELSE transactions

increment_attempts(tid) ==
    IF tid \in DOMAIN transactions
    THEN [transactions EXCEPT ![tid].attempt_count = @ + 1]
    ELSE transactions

\* UPDATE transactions SET status = ?, receiver_name = ?, accessed_at = ?
update_transaction_status(tid, status, receiver_name) ==
    IF tid \in DOMAIN transactions
    THEN [transactions EXCEPT ![tid].status = status,
                              ![tid].receiver_name = receiver_name,
                              ![tid].accessed_at = now]
    ELSE transactions

\* INSERT OR REPLACE INTO temp_files
store_temp_file(tid, data, name) ==
    PutKey(temp_files, tid, [file_data |-> data, file_name |-> name])

\* Mutant: the staged row is left in place.
delete_temp_file_kept(tid) == temp_files

\* DELETE FROM temp_files WHERE transaction_id = ?
delete_temp_file(tid) == RemoveKey(temp_files, tid)

\* ------------------------------------------------------------- workers
Idle(w) == pc[w] = "idle"
InFlight == Cardinality({w \in Workers : ~Idle(w)})
\* Threads are interchangeable: a new request takes the lowest free one.
LowestIdle(w) == Idle(w) /\ \A v \in Workers : v < w => ~Idle(v)

Counted == {"Success", "Bytes", "Locked"}
FailedAttempt == {"IdentityMismatch", "InvalidPin"}

NoReq == [op |-> "none"]
NoResponse == [op |-> "none", kind |-> "none"]
Silent == response' = NoResponse

\* crypto_utils is not being called on its own
NoCall == [fn |-> "none"]

\* The application as app.py starts it: an empty database, idle threads.
AppInit ==
    /\ transactions = EmptyTable
    /\ temp_files = EmptyTable
    /\ now = 0
    /\ pc = [w \in Workers |-> "idle"]
    /\ req = [w \in Workers |-> NoReq]
    /\ transaction = [w \in Workers |-> None]
    /\ file_data = [w \in Workers |-> None]
    /\ issued = EmptyTable
    /\ response = NoResponse
    /\ count = EmptyTable
    /\ streak = EmptyTable
    /\ calls = 0

Init == AppInit /\ lib = NoCall

\* A request for an id that upload_file handed out reaches a free thread.
\* It notes what its client had seen by then.
Begin(w, op, tid, pin, name, first) ==
    /\ LowestIdle(w)
    /\ tid \in DOMAIN issued
    /\ req' = [req EXCEPT ![w] =
                 [op |-> op, tid |-> tid, pin |-> pin, name |-> name,
                  gone |-> tid \notin DOMAIN transactions,
                  after_bytes |-> count[tid]["Bytes"] > 0,
                  prior_failed |-> streak[tid].failed,
                  prior_wrong_pin |-> streak[tid].wrong_pin,
                  prior_mismatch |-> streak[tid].mismatch,
                  clock |-> -1, seen |-> -1, tampered |-> FALSE,
                  effects |-> <<>>]]
    /\ pc' = [pc EXCEPT ![w] = first]
    /\ calls' = calls + 1
    /\ Silent
    /\ UNCHANGED <<transaction, file_data, issued, count, streak>>

\* The handler worker w runs has made one more writing store call.
Did(w, call) == [req EXCEPT ![w].effects = Append(@, call)]

\* The response leaves the handler: the client sees it, the thread is free.
\* q is the request as the handler leaves it, writes its last store calls.
Answer(w, q, kind, remaining, data, writes) ==
    LET tid == q.tid
    IN /\ response' = [op |-> q.op, tid |-> tid, pin |-> q.pin,
                       name |-> q.name, gone |-> q.gone,
                       after_bytes |-> q.after_bytes,
                       prior_failed |-> q.prior_failed,
                       prior_wrong_pin |-> q.prior_wrong_pin,
                       prior_mismatch |-> q.prior_mismatch,
                       clock |-> q.clock, seen |-> q.seen,
                       tampered |-> q.tampered,
                       effects |-> q.effects \o writes,
                       kind |-> kind, remaining |-> remaining, data |-> data]
       /\ count' = IF kind \in Counted
                   THEN [count EXCEPT ![tid][kind] = @ + 1] ELSE count
       /\ streak' = [streak EXCEPT ![tid] =
                        IF kind \notin FailedAttempt
                        THEN [failed |-> 0, wrong_pin |-> 0, mismatch |-> 0]
                        ELSE [failed |-> @.failed + 1,
                              wrong_pin |-> IF q.pin # issued[tid].pin
                                            THEN @.wrong_pin + 1 ELSE 0,
                              mismatch |-> IF kind = "IdentityMismatch"
                                           THEN @.mismatch + 1
                                           ELSE @.mismatch]]
       /\ pc' = [pc EXCEPT ![w] = "idle"]
       /\ req' = [req EXCEPT ![w] = NoReq]
       /\ transaction' = [transaction EXCEPT ![w] = None]
       /\ file_data' = [file_data EXCEPT ![w] = None]
       /\ UNCHANGED <<issued, calls>>

Respond(w, kind, remaining, data, writes) ==
    Answer(w, req[w], kind, remaining, data, writes)

\* ------------------------------------------------------------ upload_file
allowed_extensions == {".jpg", ".jpeg", ".png", ".gif", ".pdf"}

\* str.lower() on the extensions that occur
Lower(ext) ==
    CASE ext = ".PNG" -> ".png"
      [] ext = ".PDF" -> ".pdf"
      [] OTHER -> ext

\* The multipart form of an upload request, and what the handler draws at
\* random while it serves one.
Forms(parts, names, files) ==
    [has_file : parts, file_name : names, file_data : files,
     expiry : ExpiryMinutes, intended_receiver_name : Intended]
Draws(keys) ==
    [pin : GenPins, aes_key : keys, p : Primes, x : Exponents, k : Nonces]

\* Mutant: the extension is not looked at.
Refused_AnyExtension(form) ==
    \/ ~form.has_file
    \/ form.file_name = NoName

\* app.py 47-58: no file part, an empty filename, a refused extension
Refused(form) ==
    \/ ~form.has_file
    \/ form.file_name = NoName
    \/ Lower(form.file_name[2]) \notin allowed_extensions

\* app.py upload_file.  Steps 1-9 compress, encrypt, wrap the key, hash,
\* draw a PIN and an id and end in the one store_transaction call; step 10
\* draws the QR code, and qr_ok tells whether generate_qr_code returned or
\* raised.  The handler makes a single database call, so it is one step.
upload_file(tid, form, draw, qr_ok) ==
    IF Refused(form)
    THEN /\ response' = [op |-> "upload", kind |-> "ValidationError",
                         tid |-> "", form |-> form, steps |-> <<>>]
         /\ UNCHANGED <<store, now, locals, history, lib>>
    ELSE
    /\ tid \notin DOMAIN issued
    /\ LET data == form.file_data
           keys == generate_keypair(draw.p, draw.x)
           compressed_data == HuffmanCompress(data)
           encrypted_file == AesEncrypt(compressed_data, draw.aes_key)
           expiry_time == now + form.expiry
       IN /\ transactions' = PutKey(transactions, tid,
                [encrypted_file |-> encrypted_file,
                 encrypted_aes_key |-> ElGamalEncrypt(draw.aes_key, keys[1], draw.k),
                 private_key |-> keys[2],
                 hash_value |-> Sha256(encrypted_file),
                 hashed_pin |-> Sha256(draw.pin),
                 attempt_count |-> 0,
                 expiry_time |-> expiry_time,
                 status |-> "ACTIVE",
                 file_name |-> form.file_name,
                 huffman_tree |-> HuffmanTree(data),
                 receiver_name |-> "",
                 accessed_at |-> -1,
                 intended_receiver_name |-> form.intended_receiver_name])
          /\ issued' = PutKey(issued, tid,
                [pin |-> draw.pin, expiry_time |-> expiry_time,
                 file_name |-> form.file_name,
                 file_data |-> data,
                 intended |-> form.intended_receiver_name,
                 encrypted_file |-> encrypted_file,
                 aes_key |-> draw.aes_key])
    /\ count' = PutKey(count, tid, [k \in Counted |-> 0])
    /\ streak' = PutKey(streak, tid,
                        [failed |-> 0, wrong_pin |-> 0, mismatch |-> 0])
    /\ response' = [op |-> "upload",
                    kind |-> IF qr_ok THEN "Sealed" ELSE "SealError",
                    tid |-> tid, form |-> form,
                    steps |-> <<"generate_keypair", "compress", "encrypt",
                                "store_transaction">>]
    /\ UNCHANGED <<temp_files, now, locals, calls, lib>>

\* ----------------------------------------------------------- decrypt_file
StartDecrypt(w, tid, pin, name) ==
    /\ Begin(w, "decrypt", tid, pin, name, "d_get")
    /\ UNCHANGED <<store, now, lib>>

\* app.py 173-175
DecryptGet(w) ==
    /\ pc[w] = "d_get"
    /\ LET tid == req[w].tid
           t == get_transaction(tid)
       IN IF t = None
          THEN Respond(w, "NotFound", -1, None, <<>>)
          ELSE /\ transaction' = [transaction EXCEPT ![w] = t]
               /\ pc' = [pc EXCEPT ![w] = "d_check"]
               /\ req' = [req EXCEPT
                    ![w].seen = t[1].attempt_count,
                    ![w].tampered = t[1].encrypted_file # issued[tid].encrypted_file]
               /\ Silent
               /\ UNCHANGED <<file_data, history>>
    /\ UNCHANGED <<store, now, lib>>

\* Mutant: the PIN is compared before the attempt budget is looked at.
CheckOutcome_PinBeforeBudget(row, pin, name, clock) ==
    IF clock > row.expiry_time THEN "d_del_expired"
    ELSE IF row.intended_receiver_name # "" /\ name # row.intended_receiver_name
         THEN IF row.attempt_count >= MAX_ATTEMPTS THEN "d_del_locked"
              ELSE "d_inc_name"
    ELSE IF Sha256(pin) # row.hashed_pin
         THEN IF row.attempt_count >= MAX_ATTEMPTS THEN "d_del_locked"
              ELSE "d_inc_pin"
    ELSE IF Sha256(row.encrypted_file) # row.hash_value THEN "d_del_tamper"
    ELSE "d_set_accessed"

\* Mutant: the expiry is looked at only once identity and PIN have passed.
CheckOutcome_ExpiryAfterPin(row, pin, name, clock) ==
    IF row.attempt_count >= MAX_ATTEMPTS THEN "d_del_locked"
    ELSE IF row.intended_receiver_name # "" /\ name # row.intended_receiver_name
         THEN "d_inc_name"
    ELSE IF Sha256(pin) # row.hashed_pin THEN "d_inc_pin"
    ELSE IF clock > row.expiry_time THEN "d_del_expired"
    ELSE IF Sha256(row.encrypted_file) # row.hash_value THEN "d_del_tamper"
    ELSE "d_set_accessed"

\* Mutant: the ciphertext is decrypted without comparing its hash.
CheckOutcome_NoHashCheck(row, pin, name, clock) ==
    IF clock > row.expiry_time THEN "d_del_expired"
    ELSE IF row.attempt_count >= MAX_ATTEMPTS THEN "d_del_locked"
    ELSE IF row.intended_receiver_name # "" /\ name # row.intended_receiver_name
         THEN "d_inc_name"
    ELSE IF Sha256(pin) # row.hashed_pin THEN "d_inc_pin"
    ELSE IF ~AesDecryptOk(row.encrypted_file,
                          ElGamalDecrypt(row.encrypted_aes_key, row.private_key))
         THEN "d_except"
    ELSE "d_set_accessed"

\* Mutant: the PIN is compared before the receiver name.
CheckOutcome_PinBeforeName(row, pin, name, clock) ==
    IF clock > row.expiry_time THEN "d_del_expired"
    ELSE IF row.attempt_count >= MAX_ATTEMPTS THEN "d_del_locked"
    ELSE IF Sha256(pin) # row.hashed_pin THEN "d_inc_pin"
    ELSE IF row.intended_receiver_name # "" /\ name # row.intended_receiver_name
         THEN "d_inc_name"
    ELSE IF Sha256(row.encrypted_file) # row.hash_value THEN "d_del_tamper"
    ELSE "d_set_accessed"

\* Mutant: the name is compared even when no receiver was intended.
CheckOutcome_NameAlwaysChecked(row, pin, name, clock) ==
    IF clock > row.expiry_time THEN "d_del_expired"
    ELSE IF row.attempt_count >= MAX_ATTEMPTS THEN "d_del_locked"
    ELSE IF name # row.intended_receiver_name THEN "d_inc_name"
    ELSE IF Sha256(pin) # row.hashed_pin THEN "d_inc_pin"
    ELSE IF Sha256(row.encrypted_file) # row.hash_value THEN "d_del_tamper"
    ELSE "d_set_accessed"

\* app.py 178-241 on the row read at 173: everything between the clock
\* read and the next database call is local to the thread.
CheckOutcome(row, pin, name, clock) ==
    IF clock > row.expiry_time THEN "d_del_expired"
    ELSE IF row.attempt_count >= MAX_ATTEMPTS THEN "d_del_locked"
    ELSE IF row.intended_receiver_name # "" /\ name # row.intended_receiver_name
         THEN "d_inc_name"
    ELSE IF Sha256(pin) # row.hashed_pin THEN "d_inc_pin"
    ELSE IF Sha256(row.encrypted_file) # row.hash_value THEN "d_del_tamper"
    ELSE IF ~AesDecryptOk(row.encrypted_file,
                          ElGamalDecrypt(row.encrypted_aes_key, row.private_key))
         THEN "d_except"
    ELSE "d_set_accessed"

DecryptCheck(w) ==
    /\ pc[w] = "d_check"
    /\ LET next == CheckOutcome(transaction[w][1], req[w].pin, req[w].name, now)
       IN IF next = "d_except"
          THEN Answer(w, [req[w] EXCEPT !.clock = now],
                      "DecodeError", -1, None, <<>>)
          ELSE /\ pc' = [pc EXCEPT ![w] = next]
               /\ req' = [req EXCEPT ![w].clock = now]
               /\ Silent
               /\ UNCHANGED <<transaction, file_data, history>>
    /\ UNCHANGED <<store, now, lib>>

\* app.py 179-181
DecryptExpired(w) ==
    /\ pc[w] = "d_del_expired"
    /\ transactions' = delete_transaction(req[w].tid)
    /\ Respond(w, "Expired", -1, None, <<"delete_transaction">>)
    /\ UNCHANGED <<temp_files, now, lib>>

\* app.py 185-187
DecryptLocked(w) ==
    /\ pc[w] = "d_del_locked"
    /\ transactions' = delete_transaction(req[w].tid)
    /\ Respond(w, "Locked", -1, None, <<"delete_transaction">>)
    /\ UNCHANGED <<temp_files, now, lib>>

\* app.py 194, 205: new_count = transaction['attempt_count'] + 1,
\* attempts_remaining = 3 - new_count, from the row read at 173
attempts_remaining(row) == MAX_ATTEMPTS - (row.attempt_count + 1)

\* Mutant: a name mismatch is reported without being counted.
DecryptNameMismatch_Uncounted(w) ==
    /\ pc[w] = "d_inc_name"
    /\ Respond(w, "IdentityMismatch", attempts_remaining(transaction[w][1]),
               None, <<>>)
    /\ UNCHANGED <<store, now, lib>>

\* app.py 193-199
DecryptNameMismatch(w) ==
    /\ pc[w] = "d_inc_name"
    /\ transactions' = increment_attempts(req[w].tid)
    /\ Respond(w, "IdentityMismatch", attempts_remaining(transaction[w][1]),
               None, <<"increment_attempts">>)
    /\ UNCHANGED <<temp_files, now, lib>>

\* app.py 205-211
DecryptWrongPin(w) ==
    /\ pc[w] = "d_inc_pin"
    /\ transactions' = increment_attempts(req[w].tid)
    /\ Respond(w, "InvalidPin", attempts_remaining(transaction[w][1]),
               None, <<"increment_attempts">>)
    /\ UNCHANGED <<temp_files, now, lib>>

\* app.py 228-230
DecryptTampered(w) ==
    /\ pc[w] = "d_del_tamper"
    /\ transactions' = delete_transaction(req[w].tid)
    /\ Respond(w, "Tampered", -1, None, <<"delete_transaction">>)
    /\ UNCHANGED <<temp_files, now, lib>>

\* app.py 245
DecryptSetAccessed(w) ==
    /\ pc[w] = "d_set_accessed"
    /\ transactions' = update_transaction_status(req[w].tid, "ACCESSED", req[w].name)
    /\ pc' = [pc EXCEPT ![w] = "d_store"]
    /\ req' = Did(w, "update_transaction_status")
    /\ Silent
    /\ UNCHANGED <<temp_files, now, lib, transaction, file_data, history>>

\* app.py 234-241: the bytes decrypt_file recovers from the row it read
original_data(row) ==
    HuffmanDecompress(AesDecrypt(row.encrypted_file,
        ElGamalDecrypt(row.encrypted_aes_key, row.private_key)),
        row.huffman_tree)

\* app.py 256-289
DecryptStore(w) ==
    /\ pc[w] = "d_store"
    /\ LET row == transaction[w][1]
       IN /\ temp_files' = store_temp_file(req[w].tid, original_data(row), row.file_name)
          /\ Respond(w, "Success", -1, Some(original_data(row)),
                     <<"store_temp_file">>)
    /\ UNCHANGED <<transactions, now, lib>>

\* app.py 291-293: the database call the handler is about to make raises
\* (sqlite3.Error, before its commit) and the handler answers "Decryption
\* failed".  What it wrote before stays written.
StoreFault(w) ==
    /\ pc[w] \in {"d_del_tamper", "d_set_accessed", "d_store"}
    /\ Respond(w, "StoreError", -1, None, <<>>)
    /\ UNCHANGED <<store, now, lib>>

\* ---------------------------------------------------------- download_file
StartDownload(w, tid) ==
    /\ Begin(w, "download", tid, "", "", "dl_get")
    /\ UNCHANGED <<store, now, lib>>

\* app.py 299-301
DownloadGet(w) ==
    /\ pc[w] = "dl_get"
    /\ LET f == get_temp_file(req[w].tid)
       IN IF f = None
          THEN Respond(w, "NotFound", -1, None, <<>>)
          ELSE /\ file_data' = [file_data EXCEPT ![w] = f]
               /\ pc' = [pc EXCEPT ![w] = "dl_delete_temp"]
               /\ Silent
               /\ UNCHANGED <<req, transaction, history>>
    /\ UNCHANGED <<store, now, lib>>

\* app.py 319
DownloadDeleteTemp(w) ==
    /\ pc[w] = "dl_delete_temp"
    /\ temp_files' = delete_temp_file(req[w].tid)
    /\ pc' = [pc EXCEPT ![w] = "dl_set_status"]
    /\ req' = Did(w, "delete_temp_file")
    /\ Silent
    /\ UNCHANGED <<transactions, now, lib, transaction, file_data, history>>

\* app.py 320: receiver_name defaults to None, stored as ''
DownloadSetStatus(w) ==
    /\ pc[w] = "dl_set_status"
    /\ transactions' = update_transaction_status(req[w].tid, "DOWNLOADED", "")
    /\ pc' = [pc EXCEPT ![w] = "dl_delete_tx"]
    /\ req' = Did(w, "update_transaction_status")
    /\ Silent
    /\ UNCHANGED <<temp_files, now, lib, transaction, file_data, history>>

\* app.py 321-332
DownloadDeleteTransaction(w) ==
    /\ pc[w] = "dl_delete_tx"
    /\ transactions' = delete_transaction(req[w].tid)
    /\ Respond(w, "Bytes", -1, Some(file_data[w][1]),
               <<"delete_transaction">>)
    /\ UNCHANGED <<temp_files, now, lib>>

\* ----------------------------------------------------------- check_status
StartStatus(w, tid) ==
    /\ Begin(w, "status", tid, "", "", "s_get")
    /\ UNCHANGED <<store, now, lib>>

\* Mutant: a status call counts as an attempt.
CheckStatus_Counting(w) ==
    /\ pc[w] = "s_get"
    /\ transactions' = increment_attempts(req[w].tid)
    /\ Respond(w, IF get_transaction(req[w].tid) = None THEN "NotFound"
                  ELSE "Status",
               -1, None, <<"increment_attempts">>)
    /\ UNCHANGED <<temp_files, now, lib>>

\* app.py 341-365.  The row has no user_agent column (database.py 25-47),
\* so transaction['user_agent'] raises for an accessed row and the handler
\* answers "Status check failed".
CheckStatus(w) ==
    /\ pc[w] = "s_get"
    /\ LET t == get_transaction(req[w].tid)
       IN Respond(w, IF t = None THEN "NotFound"
                     ELSE IF t[1].status \in {"ACCESSED", "DOWNLOADED"}
                          THEN "StatusFailed"
                          ELSE "Status",
                  -1, None, <<>>)
    /\ UNCHANGED <<store, now, lib>>

\* ------------------------------------------------------------ environment
\* Time passes.  The clock's origin is arbitrary: it is the first upload.
Tick ==
    /\ now < MaxTime
    /\ issued # EmptyTable
    /\ now' = now + 1
    /\ Silent
    /\ UNCHANGED <<store, locals, history, lib>>

\* The relay's stored ciphertext is altered behind the program's back.
Tamper(tid) ==
    /\ tid \in DOMAIN transactions
    /\ transactions[tid].encrypted_file[1] # "flipped"
    /\ transactions' = [transactions EXCEPT ![tid].encrypted_file = Flipped(@)]
    /\ Silent
    /\ UNCHANGED <<temp_files, now, lib, locals, history>>

\* DatabaseManager.cleanup_expired_transactions.  No handler of app.py calls
\* it; it is a maintenance sweep, run by SweepSpec only.
cleanup_expired_transactions ==
    /\ \E tid \in DOMAIN transactions : transactions[tid].expiry_time < now
    /\ transactions' = [tid \in {t \in DOMAIN transactions :
                                    ~(transactions[t].expiry_time < now)}
                          |-> transactions[tid]]
    /\ Silent
    /\ UNCHANGED <<temp_files, now, lib, locals, history>>

\* ------------------------------------------------------------------ specs
Arrive ==
    \E w \in Workers, tid \in TxIds :
        \/ \E pin \in Pins, name \in Names : StartDecrypt(w, tid, pin, name)
        \/ StartDownload(w, tid)
        \/ StartStatus(w, tid)

\* The steps of a decrypt_file call that fails an attempt or finds the
\* budget spent.
AttemptSteps(w) ==
    \/ DecryptGet(w)
    \/ DecryptCheck(w)
    \/ DecryptLocked(w)
    \/ DecryptNameMismatch(w)
    \/ DecryptWrongPin(w)

\* The steps a handler can take on a record that is neither expired nor
\* tampered with.
QuietSteps(w) ==
    \/ AttemptSteps(w)
    \/ DecryptSetAccessed(w)
    \/ DecryptStore(w)
    \/ DownloadGet(w)
    \/ DownloadDeleteTemp(w)
    \/ DownloadSetStatus(w)
    \/ DownloadDeleteTransaction(w)
    \/ CheckStatus(w)

Step ==
    \E w \in Workers :
        \/ QuietSteps(w)
        \/ DecryptExpired(w)
        \/ DecryptTampered(w)

\* A well-formed upload, served in full.
Upload ==
    \E tid \in TxIds, form \in Forms({TRUE}, FileNames, FileBytes),
       draw \in Draws(AesKeys) :
        upload_file(tid, form, draw, TRUE)

\* The same with one file and one key, where their values play no part.
PlainUpload ==
    \E tid \in TxIds, form \in Forms({TRUE}, FileNames, {<<1, 2, 2>>}),
       draw \in Draws({[i \in 1..AesKeySize |-> i]}) :
        upload_file(tid, form, draw, TRUE)

\* Any upload request, the malformed ones and the empty file included;
\* generate_qr_code may raise.  Uploads are sent before the other requests.
AnyUpload ==
    /\ calls = 0
    /\ \E tid \in TxIds,
          form \in Forms(BOOLEAN, FileNames \cup OtherNames,
                         FileBytes \cup {EmptyFile}),
          draw \in Draws({[i \in 1..AesKeySize |-> i]}), qr_ok \in BOOLEAN :
           upload_file(tid, form, draw, qr_ok)

\* The clock and the relay's storage, outside the program's control.
Environment ==
    \/ Tick
    \/ \E tid \in TxIds : Tamper(tid)

\* The whole system: concurrent request threads, time, an untrusted store.
Next ==
    \/ calls < MaxCalls /\ InFlight < MaxInFlight /\ Arrive
    \/ Step
    \/ PlainUpload
    \/ Environment
Spec == Init /\ [][Next]_vars

\* One client at a time: a request is sent after the previous response.
SeqNext ==
    \/ calls < MaxCalls /\ InFlight = 0 /\ Arrive
    \/ Step
    \/ Upload
    \/ Environment
SeqSpec == Init /\ [][SeqNext]_vars

\* One client at a time, any upload request, generate_qr_code may raise.
SealNext ==
    \/ SeqNext
    \/ AnyUpload
SealSpec == Init /\ [][SealNext]_vars

\* One client at a time, database calls of decrypt_file may raise.
FaultNext ==
    \/ SeqNext
    \/ \E w \in Workers : StoreFault(w)
FaultSpec == Init /\ [][FaultNext]_vars

\* One client at a time, with the maintenance sweep running beside it.
SweepNext ==
    \/ SeqNext
    \/ cleanup_expired_transactions
SweepSpec == Init /\ [][SweepNext]_vars

\* Concurrent request threads on a record that does not expire and is not
\* tampered with.
RaceNext ==
    \/ calls < MaxCalls /\ InFlight < MaxInFlight /\ Arrive
    \/ \E w \in Workers : QuietSteps(w)
    \/ PlainUpload
RaceSpec == Init /\ [][RaceNext]_vars

\* A burst: wrong-PIN decrypt requests for one unexpired id, one per thread,
\* all sent before the first response comes back.
BurstArrive ==
    \E w \in Workers, tid \in TxIds, pin \in Pins, name \in Names :
        /\ calls = InFlight
        /\ tid \in DOMAIN issued
        /\ pin # issued[tid].pin
        /\ StartDecrypt(w, tid, pin, name)
BurstNext ==
    \/ BurstArrive
    \/ \E w \in Workers : AttemptSteps(w)
    \/ PlainUpload
BurstSpec == Init /\ [][BurstNext]_vars

\* ----------------------------------------------------------------- claims
Rank(status) ==
    CASE status = "ACTIVE" -> 0
      [] status = "ACCESSED" -> 1
      [] status = "DOWNLOADED" -> 2

Answered(op) == response.op = op
Unexpired(tid) == now <= issued[tid].expiry_time
IdentityOk(r) ==
    issued[r.tid].intended = "" \/ r.name = issued[r.tid].intended
PinOk(r) == r.pin = issued[r.tid].pin

\* C1: in every interleaving of concurrent unseal requests against one id,
\* the stored attempt_count never exceeds 3 while the record exists.
C1_AttemptCountWithinBudget ==
    \A tid \in DOMAIN transactions :
        transactions[tid].attempt_count <= MAX_ATTEMPTS

\* C2: when a burst of N > 3 parallel wrong-PIN unseal requests against one
\* unexpired id has been answered in full, exactly one of the answers is
\* Locked.
C2_ExactlyOneLocked ==
    \A tid \in DOMAIN issued :
        (NumWorkers > MAX_ATTEMPTS /\ calls = NumWorkers /\ InFlight = 0)
            => count[tid]["Locked"] = 1

\* C3: for any id, at most one unseal call ever answers with the plaintext.
C3_AtMostOneUnsealSucceeds ==
    \A tid \in DOMAIN issued : count[tid]["Success"] <= 1

\* C4: for any id, in every interleaving of download and unseal requests,
\* at most one download call answers with the file bytes.
C4_AtMostOneDownloadServed ==
    \A tid \in DOMAIN issued : count[tid]["Bytes"] <= 1

\* C5: a call that begins after the record of its id has been deleted is
\* answered NotFound and carries no file bytes.
C5_DeletedIdIsUnusable ==
    (response.op \in {"decrypt", "download", "status"} /\ response.gone)
        => (response.kind = "NotFound" /\ response.data = None)

\* C6: with one client at a time, an unseal call that follows 3 wrong-PIN
\* unseal calls in a row, each answered as a failed attempt, on an id that
\* is still unexpired, is answered Locked whatever PIN it carries, and the
\* record is gone afterwards.
C6_FourthCallIsLocked ==
    (Answered("decrypt") /\ response.prior_wrong_pin >= MAX_ATTEMPTS
        /\ Unexpired(response.tid))
        => (response.kind = "Locked"
            /\ response.tid \notin DOMAIN transactions)

\* C6 witness: the fourth call carried the correct PIN and was locked out.
C6_Witness ==
    /\ Answered("decrypt")
    /\ response.prior_wrong_pin = MAX_ATTEMPTS
    /\ PinOk(response) /\ IdentityOk(response)
    /\ Unexpired(response.tid)
    /\ response.kind = "Locked"

\* C7: no step changes the status of a record backwards along
\* ACTIVE -> ACCESSED -> DOWNLOADED.
C7_StatusOnlyAdvances ==
    [][\A tid \in DOMAIN transactions \cap DOMAIN transactions' :
          Rank(transactions'[tid].status) >= Rank(transactions[tid].status)]_vars

\* C8: with one client at a time, once a download has answered with the
\* bytes the record of that id is gone, and a download call made after it
\* is answered NotFound.
C8_SecondDownloadNotFound ==
    /\ \A tid \in DOMAIN issued :
          count[tid]["Bytes"] > 0 => tid \notin DOMAIN transactions
    /\ (Answered("download") /\ response.after_bytes)
          => (response.kind = "NotFound" /\ response.data = None)

\* C8 witness: a second download, after the first was served, got NotFound.
C8_Witness ==
    /\ Answered("download")
    /\ response.after_bytes
    /\ response.kind = "NotFound"
    /\ count[response.tid]["Bytes"] = 1

\* C9: an unseal call that finds the record and reads the clock after
\* expires_at is answered Expired, whatever its PIN, its name and the
\* attempt_count it read; deleting the record is the only write it makes
\* (no attempt is counted, nothing is staged), and the record is gone.
C9_ExpiredUnsealPurges ==
    (Answered("decrypt") /\ response.clock > issued[response.tid].expiry_time)
        => /\ response.kind = "Expired"
           /\ response.effects = <<"delete_transaction">>
           /\ response.data = None
           /\ response.tid \notin DOMAIN transactions

\* C9 witness: an expired call with the correct PIN and name was refused.
C9_Witness ==
    /\ Answered("decrypt")
    /\ response.clock > issued[response.tid].expiry_time
    /\ PinOk(response) /\ IdentityOk(response)
    /\ response.kind = "Expired"

C11_NameMismatchHidesPin ==
    /\ \A tid \in DOMAIN transactions, name \in Names, clock \in 0..MaxTime :
          LET row == transactions[tid]
          IN (row.intended_receiver_name # ""
                /\ name # row.intended_receiver_name)
             => \A p1 \in Pins, p2 \in Pins :
                  CheckOutcome(row, p1, name, clock)
                    = CheckOutcome(row, p2, name, clock)
    /\ (Answered("decrypt") /\ ~IdentityOk(response)
          /\ response.clock # -1
          /\ response.clock <= issued[response.tid].expiry_time
          /\ response.seen < MAX_ATTEMPTS)
        => /\ response.kind = "IdentityMismatch"
           /\ response.remaining = MAX_ATTEMPTS - (response.seen + 1)
           /\ response.effects = <<"increment_attempts">>
           /\ response.data = None
           /\ response.tid \in DOMAIN transactions
           /\ transactions[response.tid].attempt_count = response.seen + 1
           /\ transactions[response.tid].status
                = IF count[response.tid]["Success"] > 0
                  THEN "ACCESSED" ELSE "ACTIVE"

\* C11 witness: a request with the wrong name and the right PIN was
\* answered IdentityMismatch.
C11_Witness ==
    /\ Answered("decrypt")
    /\ ~IdentityOk(response) /\ PinOk(response)
    /\ response.kind = "IdentityMismatch"
    /\ response.remaining = MAX_ATTEMPTS - 1

\* C12: with one client at a time, an unseal call that follows 3 failed
\* unseal calls in a row, each answered IdentityMismatch or InvalidPin in
\* any mix, on an id that is still unexpired, is answered Locked and the
\* record is gone afterwards.
C12_SharedBudget ==
    (Answered("decrypt") /\ response.prior_failed >= MAX_ATTEMPTS
        /\ Unexpired(response.tid))
        => (response.kind = "Locked"
            /\ response.effects = <<"delete_transaction">>
            /\ response.tid \notin DOMAIN transactions)

\* C12 witness: the 3 failures were a mix of both kinds.
C12_Witness ==
    /\ Answered("decrypt")
    /\ response.prior_failed = MAX_ATTEMPTS
    /\ response.prior_mismatch \in 1..(MAX_ATTEMPTS - 1)
    /\ Unexpired(response.tid)
    /\ response.kind = "Locked"

\* --------------------------------------------- crypto_utils on its own
\* The byte strings given to HuffmanCompression: every string over three
\* byte values up to MaxLen bytes, and the runs of one byte value up to
\* MaxRun bytes.
HuffBytes == {0, 1, 255}
HuffInputs ==
    UNION {[1..n -> HuffBytes] : n \in 0..MaxLen}
        \cup {[i \in 1..n |-> 65] : n \in 1..MaxRun}

\* One HuffmanCompression object: compress(data), then decompress of what
\* compress returned, with the tree compress left in self.tree.
HuffInit ==
    /\ AppInit
    /\ lib \in {[fn |-> "huffman", stage |-> "input", data |-> d,
                 tree |-> NoTree, out |-> <<>>] : d \in HuffInputs}

CompressCall ==
    /\ lib.fn = "huffman" /\ lib.stage = "input"
    /\ lib' = [lib EXCEPT !.stage = "compressed",
                          !.tree = HuffmanTree(lib.data),
                          !.out = HuffmanCompress(lib.data)]
    /\ UNCHANGED <<store, now, locals, history, response>>

DecompressCall ==
    /\ lib.fn = "huffman" /\ lib.stage = "compressed"
    /\ lib' = [lib EXCEPT !.stage = "decompressed",
                          !.out = HuffmanDecompress(lib.out, lib.tree)]
    /\ UNCHANGED <<store, now, locals, history, response>>

HuffNext ==
    \/ CompressCall
    \/ DecompressCall
HuffSpec == HuffInit /\ [][HuffNext]_vars

\* The keys given to ElGamalCrypto.encrypt: every string of AesKeySize
\* bytes over three byte values; the primes, private exponents and nonces
\* generate_keypair and _encrypt_block may draw.  The primes have 17 bits,
\* so a block holds 2 bytes and a key takes the multi-block path, as a
\* 32-byte key does with a 256-bit prime (31 bytes a block).
KeyBytes == {0, 1, 255}
WrapKeys == [1..AesKeySize -> KeyBytes]
WrapPrimes == {65537, 65539}
WrapExponents == {2, 12345}
WrapNonces == {1, 77}

\* One ElGamalCrypto object: generate_keypair, encrypt(key, public_key),
\* decrypt(encrypted, private_key).
KeyWrapInit ==
    /\ AppInit
    /\ lib \in {[fn |-> "elgamal", stage |-> "input", data |-> key,
                 p |-> p, x |-> x, k |-> k,
                 public_key |-> <<>>, private_key |-> <<>>, out |-> <<>>] :
                key \in WrapKeys, p \in WrapPrimes, x \in WrapExponents,
                k \in WrapNonces}

KeypairCall ==
    /\ lib.fn = "elgamal" /\ lib.stage = "input"
    /\ LET keys == generate_keypair(lib.p, lib.x)
       IN lib' = [lib EXCEPT !.stage = "keys",
                             !.public_key = keys[1], !.private_key = keys[2]]
    /\ UNCHANGED <<store, now, locals, history, response>>

EncryptCall ==
    /\ lib.fn = "elgamal" /\ lib.stage = "keys"
    /\ lib' = [lib EXCEPT !.stage = "encrypted",
                          !.out = ElGamalEncrypt(lib.data, lib.public_key, lib.k)]
    /\ UNCHANGED <<store, now, locals, history, response>>

DecryptCall ==
    /\ lib.fn = "elgamal" /\ lib.stage = "encrypted"
    /\ lib' = [lib EXCEPT !.stage = "decrypted",
                          !.out = ElGamalDecrypt(lib.out, lib.private_key)]
    /\ UNCHANGED <<store, now, locals, history, response>>

KeyWrapNext ==
    \/ KeypairCall
    \/ EncryptCall
    \/ DecryptCall
KeyWrapSpec == KeyWrapInit /\ [][KeyWrapNext]_vars

\* ------------------------------- DatabaseManager.cleanup_old_temp_files
\* The time of day at which the sweep runs: datetime.now() is read twice
\* (database.py 282), once for the value replace() is called on and once
\* for the hour; rolled tells whether the hour changed in between, which
\* takes a first read in the last minute of an hour.
SweepMinutes == {0, 30, 59}
SweepHours == {1}
SweepInit ==
    /\ AppInit
    /\ lib \in {[fn |-> "cleanup_old_temp_files", stage |-> "input",
                 hour |-> h, minute |-> m, rolled |-> r, hours |-> n,
                 outcome |-> "none", cutoff |-> 0] :
                h \in 0..23, m \in SweepMinutes, r \in BOOLEAN,
                n \in SweepHours}
    /\ lib.rolled => lib.minute = 59

\* datetime.replace(hour=...) raises ValueError outside 0..23; the cutoff
\* is counted in minutes from the midnight of the first read.  temp_files
\* is empty here, so the DELETE removes nothing.
cleanup_old_temp_files ==
    /\ lib.fn = "cleanup_old_temp_files" /\ lib.stage = "input"
    /\ LET second_hour == IF lib.rolled THEN (lib.hour + 1) % 24 ELSE lib.hour
           new_hour == second_hour - lib.hours
       IN lib' = IF new_hour \in 0..23
                 THEN [lib EXCEPT !.stage = "done", !.outcome = "ok",
                                  !.cutoff = new_hour * 60 + lib.minute]
                 ELSE [lib EXCEPT !.stage = "done", !.outcome = "ValueError"]
    /\ UNCHANGED <<store, now, locals, history, response>>

TempSweepSpec == SweepInit /\ [][cleanup_old_temp_files]_vars

\* -------------------------------- decompress on bytes it did not produce
\* Trees set_tree() may have installed, and byte strings that need not come
\* from compress: any header byte of Headers before up to two packed bytes.
DecodeTrees == {HuffmanTree(<<1, 2, 2>>), HuffmanTree(<<1, 1, 2, 2, 3>>),
                HuffmanTree(<<65, 65, 65>>)}
Headers == {0, 1, 7, 8, 9, 17}
PackedBytes == {0, 170, 255}
DecodeInputs ==
    {<<h>> \o body : h \in Headers,
                     body \in UNION {[1..n -> PackedBytes] : n \in 0..2}}

DecodeInit ==
    /\ AppInit
    /\ lib \in {[fn |-> "decompress", stage |-> "input", tree |-> t,
                 compressed_data |-> c, outcome |-> "none", out |-> <<>>] :
                t \in DecodeTrees, c \in DecodeInputs}

\* HuffmanCompression.decompress has no raise statement and no operation
\* that can fail on a bytes object and a well-formed tree (slicing past
\* the start gives the empty string, the decoding loop just ends): every
\* call returns a bytes object.
DecodeCall ==
    /\ lib.fn = "decompress" /\ lib.stage = "input"
    /\ lib' = [lib EXCEPT !.stage = "done", !.outcome = "bytes",
                          !.out = HuffmanDecompress(lib.compressed_data, lib.tree)]
    /\ UNCHANGED <<store, now, locals, history, response>>

DecodeSpec == DecodeInit /\ [][DecodeCall]_vars

\* ------------------------------------------ ElGamalCrypto._find_generator
\* n is a prime number (trial division)
IsPrimeNumber(n) ==
    /\ n >= 2
    /\ \A d \in 2..(n - 1) : d * d > n \/ n % d # 0

\* The odd primes given to _find_generator: the small ones, the moduli of
\* the key-wrap runs, and 87481, modulo which 2, 3, ..., 23 are all
\* quadratic residues.
GenPrimes ==
    {n \in 3..MaxPrime : IsPrimeNumber(n)} \cup {65537, 65539, 87481}

\* pow(g, (p - 1) // 2, p) != 1 fails
IsResidue(g, p) == PowMod(g, (p - 1) \div 2, p) = 1

\* What _find_generator may return.  If a listed number passes the test,
\* the first one that does.  Otherwise up to 100 values random.randrange(2, p)
\* are tested and the first that passes is returned; all of them may be
\* residues, and then line 239 returns 2 untested.
find_generator_results(p) ==
    IF \E i \in DOMAIN SmallGenerators : ~IsResidue(SmallGenerators[i], p)
    THEN {find_generator(p)}
    ELSE LET drawn == {g \in 2..MaxDraw : g < p}
         IN {g \in drawn : ~IsResidue(g, p)}
              \cup (IF \E g \in drawn : IsResidue(g, p) THEN {2} ELSE {})

GenInit ==
    /\ AppInit
    /\ lib \in {[fn |-> "find_generator", stage |-> "input", p |-> p, g |-> 0] :
                p \in GenPrimes}

FindGeneratorCall ==
    /\ lib.fn = "find_generator" /\ lib.stage = "input"
    /\ \E g \in find_generator_results(lib.p) :
          lib' = [lib EXCEPT !.stage = "done", !.g = g]
    /\ UNCHANGED <<store, now, locals, history, response>>

GenSpec == GenInit /\ [][FindGeneratorCall]_vars

\* ------------------------------------------------ ElGamalCrypto._is_prime
\* k, the number of Miller-Rabin rounds (the default of _is_prime)
MillerRabinRounds == 10

\* n - 1 = d * 2^r with d odd: <<r, d>>
RECURSIVE Decompose(_, _)
Decompose(r, d) == IF d % 2 = 0 THEN Decompose(r + 1, d \div 2) ELSE <<r, d>>

\* The inner loop: x is squared up to times times; TRUE if n - 1 shows up
\* (break), FALSE if the loop runs out (the else branch)
RECURSIVE Squarings(_, _, _)
Squarings(x, n, times) ==
    IF times = 0 THEN FALSE
    ELSE LET y == MulMod(x, x, n)
         IN y = n - 1 \/ Squarings(y, n, times - 1)

\* Mutant: a round passes only on x == 1 or x == n - 1, without squaring.
RoundPasses_NoSquaring(n, a) ==
    LET x == PowMod(a, Decompose(0, n - 1)[2], n)
    IN x = 1 \/ x = n - 1

\* One round with the witness a: TRUE if the round does not return False
RoundPasses(n, a) ==
    LET rd == Decompose(0, n - 1)
        x == PowMod(a, rd[2], n)
    IN x = 1 \/ x = n - 1 \/ Squarings(x, n, rd[1] - 1)

IsPrimeInit ==
    /\ AppInit
    /\ lib \in {[fn |-> "is_prime", stage |-> "input", n |-> n,
                 round |-> 0, result |-> FALSE] : n \in (-2)..MaxN}

\* crypto_utils.py 197-200
IsPrimeSmall ==
    /\ lib.fn = "is_prime" /\ lib.stage = "input"
    /\ lib' = IF lib.n = 2 \/ lib.n = 3
              THEN [lib EXCEPT !.stage = "done", !.result = TRUE]
              ELSE IF lib.n < 2 \/ lib.n % 2 = 0
                   THEN [lib EXCEPT !.stage = "done", !.result = FALSE]
                   ELSE [lib EXCEPT !.stage = "rounds"]
    /\ UNCHANGED <<store, now, locals, history, response>>

\* crypto_utils.py 210-222: one round, a = random.randrange(2, n - 1)
IsPrimeRound ==
    /\ lib.fn = "is_prime" /\ lib.stage = "rounds"
    /\ lib.round < MillerRabinRounds
    /\ \E a \in 2..(lib.n - 2) :
          lib' = IF RoundPasses(lib.n, a)
                 THEN [lib EXCEPT !.round = @ + 1]
                 ELSE [lib EXCEPT !.stage = "done", !.result = FALSE]
    /\ UNCHANGED <<store, now, locals, history, response>>

\* crypto_utils.py 224
IsPrimeReturn ==
    /\ lib.fn = "is_prime" /\ lib.stage = "rounds"
    /\ lib.round = MillerRabinRounds
    /\ lib' = [lib EXCEPT !.stage = "done", !.result = TRUE]
    /\ UNCHANGED <<store, now, locals, history, response>>

IsPrimeNext ==
    \/ IsPrimeSmall
    \/ IsPrimeRound
    \/ IsPrimeReturn
IsPrimeSpec == IsPrimeInit /\ [][IsPrimeNext]_vars

\* ------------------------------------------------------------ properties
Range(seq) == {seq[i] : i \in DOMAIN seq}

\* C13: an unseal call answered with a decode error or a store error has
\* made no write to the store (record and staged plaintext are as they were
\* before the call), and a call that set the status to ACCESSED also staged
\* the plaintext.
C13_FailedUnsealLeavesNoTrace ==
    /\ (Answered("decrypt") /\ response.kind \in {"DecodeError", "StoreError"})
          => response.effects = <<>>
    /\ (Answered("decrypt")
          /\ "update_transaction_status" \in Range(response.effects))
          => /\ response.kind = "Success"
             /\ "store_temp_file" \in Range(response.effects)

\* C14: a seal call that answers with an error has stored no transaction
\* record.
C14_FailedSealLeavesNoRecord ==
    (Answered("upload") /\ response.kind # "Sealed")
        => /\ "store_transaction" \notin Range(response.steps)
           /\ response.tid \notin DOMAIN transactions

\* What upload_file refuses: no file part, an empty filename, an extension
\* outside the list (compared in lower case).
Malformed(form) ==
    \/ ~form.has_file
    \/ form.file_name = NoName
    \/ Lower(form.file_name[2]) \notin allowed_extensions

C15_WitnessEmptyFile ==
    /\ Answered("upload")
    /\ response.kind = "Sealed"
    /\ response.form.file_data = EmptyFile
    /\ response.tid \in DOMAIN transactions

\* C16: an unseal call that finds an untampered record, reads the clock no
\* later than expires_at and an attempt_count below 3, and carries the
\* issued PIN (and the intended name, if one was set) is answered Success:
\* the plaintext is staged, the status is ACCESSED, receiver_name is the
\* name sent, accessed_at is set and attempt_count is what it was.
C16_CorrectPinSucceeds ==
    (Answered("decrypt")
        /\ response.seen # -1 /\ response.seen < MAX_ATTEMPTS
        /\ response.clock # -1
        /\ response.clock <= issued[response.tid].expiry_time
        /\ ~response.tampered
        /\ IdentityOk(response) /\ PinOk(response))
        => /\ response.kind = "Success"
           /\ response.effects = <<"update_transaction_status", "store_temp_file">>
           /\ response.tid \in DOMAIN temp_files
           /\ response.tid \in DOMAIN transactions
           /\ transactions[response.tid].status = "ACCESSED"
           /\ transactions[response.tid].receiver_name = response.name
           /\ transactions[response.tid].accessed_at # -1
           /\ transactions[response.tid].attempt_count = response.seen

\* C17: a download that is served returns the byte sequence and the
\* filename that were given to upload_file.
C17_DownloadReturnsSealedFile ==
    (Answered("download") /\ response.kind = "Bytes")
        => response.data = Some([file_data |-> issued[response.tid].file_data,
                                 file_name |-> issued[response.tid].file_name])

\* C18: for every byte string d, decompress applied to compress(d), with
\* the tree that compress call built, returns d.
C18_HuffmanRoundTrip ==
    (lib.fn = "huffman" /\ lib.stage = "decompressed") => lib.out = lib.data

\* C19: for every key of the AES key length and every key pair,
\* decrypt(encrypt(key, public_key), private_key) returns the key, with
\* the same length.
C19_KeyWrapRoundTrip ==
    (lib.fn = "elgamal" /\ lib.stage = "decrypted")
        => /\ Len(lib.out) = Len(lib.data)
           /\ lib.out = lib.data

\* C20: the step in which check_status answers, for an id that exists or
\* not, leaves every transaction record and every staged plaintext as it
\* was.
C20_StatusIsReadOnly ==
    [][(\E w \in Workers : pc[w] = "s_get" /\ pc'[w] # "s_get")
          => /\ transactions' = transactions
             /\ temp_files' = temp_files
             /\ response'.op = "status"
             /\ response'.effects = <<>>]_vars

\* C20 witness: a status call was answered for a record with a counted
\* attempt and a staged plaintext.
C20_Witness ==
    /\ Answered("status")
    /\ response.tid \in DOMAIN transactions
    /\ transactions[response.tid].attempt_count > 0
    /\ response.tid \in DOMAIN temp_files

\* A status call was answered for an id whose record is gone.
C20_WitnessNoRecord ==
    /\ Answered("status")
    /\ response.kind = "NotFound"
    /\ response.tid \notin DOMAIN transactions

\* C21: when the record names no intended receiver, the branch decrypt_file
\* takes is the same for every receiver name and is never the name
\* mismatch; a request that passes the expiry and attempt checks is decided
\* by its PIN alone: InvalidPin with one attempt counted if the PIN is
\* wrong, no IdentityMismatch and no attempt counted if it is right.
C21_NameIgnoredWithoutIntended ==
    /\ \A tid \in DOMAIN transactions, pin \in Pins, clock \in 0..MaxTime :
          LET row == transactions[tid]
          IN row.intended_receiver_name = ""
             => \A n1 \in Names, n2 \in Names :
                  /\ CheckOutcome(row, pin, n1, clock)
                       = CheckOutcome(row, pin, n2, clock)
                  /\ CheckOutcome(row, pin, n1, clock) # "d_inc_name"
    /\ (Answered("decrypt") /\ issued[response.tid].intended = ""
          /\ response.clock # -1
          /\ response.clock <= issued[response.tid].expiry_time
          /\ response.seen < MAX_ATTEMPTS)
        => /\ response.kind # "IdentityMismatch"
           /\ response.kind = "InvalidPin" <=> ~PinOk(response)
           /\ response.kind = "InvalidPin"
                => /\ response.effects = <<"increment_attempts">>
                   /\ transactions[response.tid].attempt_count
                        = response.seen + 1
           /\ (PinOk(response) /\ response.tid \in DOMAIN transactions)
                => transactions[response.tid].attempt_count = response.seen

\* C21 witness: with no intended receiver, a request under each name was
\* served: the last one, from "bob", succeeded.
C21_Witness ==
    /\ Answered("decrypt")
    /\ issued[response.tid].intended = ""
    /\ response.name = "bob"
    /\ response.kind = "Success"
    /\ transactions[response.tid].receiver_name = "bob"

\* C22: a staged plaintext exists only for an id whose transaction record
\* exists with status ACCESSED.
C22_StagedOnlyWhileAccessed ==
    \A tid \in DOMAIN temp_files :
        /\ tid \in DOMAIN transactions
        /\ transactions[tid].status = "ACCESSED"

\* C23: the step in which decrypt_file answers IdentityMismatch or
\* InvalidPin adds 1 to the attempt_count of the record, which exists, and
\* changes nothing else: every other column of the record, every other
\* record and every staged plaintext are as they were.
C23_FailedCheckOnlyCounts ==
    [][\A w \in Workers :
          (pc[w] \in {"d_inc_name", "d_inc_pin"} /\ pc'[w] = "idle")
            => /\ req[w].tid \in DOMAIN transactions
               /\ transactions' = [transactions EXCEPT
                                     ![req[w].tid].attempt_count = @ + 1]
               /\ temp_files' = temp_files
               /\ response'.kind \in {"IdentityMismatch", "InvalidPin"}]_vars

\* C23 witness: a failed check was answered on an accessed record whose
\* plaintext is staged, and both are still there.
C23_Witness ==
    /\ Answered("decrypt")
    /\ response.kind \in {"IdentityMismatch", "InvalidPin"}
    /\ response.tid \in DOMAIN transactions
    /\ transactions[response.tid].attempt_count = response.seen + 1
    /\ transactions[response.tid].status = "ACCESSED"
    /\ response.tid \in DOMAIN temp_files

\* C24: in every interleaving, the attempts remaining that an
\* IdentityMismatch or InvalidPin answer carries are 3 minus the stored
\* attempt_count right after that call's increment.
C24_RemainingMatchesStore ==
    (Answered("decrypt")
        /\ response.kind \in {"IdentityMismatch", "InvalidPin"})
        => /\ response.tid \in DOMAIN transactions
           /\ response.remaining
                = MAX_ATTEMPTS - transactions[response.tid].attempt_count

\* C25: for every non-empty input, the first byte of what compress returns
\* is in 0..7 and is the number of zero bits appended to the encoded bit
\* string: the packed bytes hold the encoded bits and that many pad bits.
C25_PadHeaderCountsPadBits ==
    (lib.fn = "huffman" /\ lib.stage = "compressed" /\ lib.data # <<>>)
        => LET encoded_bits == Encode(generate_codes(lib.tree, <<>>), lib.data)
           IN /\ lib.out[1] \in 0..7
              /\ lib.out[1] = 8 * (Len(lib.out) - 1) - Len(encoded_bits)

\* C26: cleanup_old_temp_files with the default hours = 1 completes without
\* error at every hour of the day, and its cutoff is exactly hours hours
\* before the time it ran at.
C26_TempSweepCutoff ==
    (lib.fn = "cleanup_old_temp_files" /\ lib.stage = "done")
        => /\ lib.outcome = "ok"
           /\ lib.cutoff = (lib.hour * 60 + lib.minute) - 60 * lib.hours

\* The node the decoding walk stands on when the bits run out.
RECURSIVE WalkEnd(_, _, _)
WalkEnd(tree, current, bits) ==
    IF bits = <<>> THEN current
    ELSE LET child == IF Head(bits) = 0 THEN current[3] ELSE current[4]
         IN WalkEnd(tree, IF IsLeaf(child) THEN tree ELSE child, Tail(bits))

\* The pad header asks for more bits than the packed bytes hold.
PadTooLarge(compressed_data) ==
    compressed_data[1] > 8 * (Len(compressed_data) - 1)

\* The bits left after the pad bits are removed end inside a code word.
EndsMidCode(compressed_data, tree) ==
    /\ ~IsLeaf(tree)
    /\ ~PadTooLarge(compressed_data)
    /\ LET encoded_bits == Unpack(Tail(compressed_data))
           kept == SubSeq(encoded_bits, 1,
                          Len(encoded_bits) - compressed_data[1])
       IN WalkEnd(tree, tree, kept) # tree

\* C27: decompress given a bit stream that ends in the middle of a code
\* word, or a pad header larger than the bits available, reports a
\* decoding failure and returns no byte sequence.
C27_MalformedInputFails ==
    (lib.fn = "decompress" /\ lib.stage = "done"
        /\ (PadTooLarge(lib.compressed_data)
              \/ EndsMidCode(lib.compressed_data, lib.tree)))
        => lib.outcome = "error"

\* C28: for every odd prime p, the g that _find_generator returns, on any
\* of its paths, satisfies pow(g, (p - 1) // 2, p) != 1.
C28_GeneratorIsNonResidue ==
    (lib.fn = "find_generator" /\ lib.stage = "done")
        => PowMod(lib.g, (lib.p - 1) \div 2, lib.p) # 1

\* C29: _is_prime returns True for every prime, whatever witnesses its
\* rounds draw, and False for every number below 2 and every even number
\* above 2.
C29_PrimalityTestSound ==
    (lib.fn = "is_prime" /\ lib.stage = "done")
        => /\ IsPrimeNumber(lib.n) => lib.result
           /\ (lib.n < 2 \/ (lib.n > 2 /\ lib.n % 2 = 0)) => ~lib.result

\* C29 witness: a prime went through all the rounds and was accepted.
C29_Witness ==
    /\ lib.fn = "is_prime" /\ lib.stage = "done"
    /\ lib.n = 41
    /\ lib.round = MillerRabinRounds
    /\ lib.result

====
